---- MODULE Spec2Model ----
(***************************************************************************)
(* GatewayManager of neurons/validator/gateway/gateway_manager.py:         *)
(* the in-memory gateway list, get_best_gateway, get_tasks and add_result. *)
(* GatewayApi (the transport client) and GatewayScorer are collaborators   *)
(* whose code is outside the modelled file; they are modelled by their     *)
(* contract.                                                               *)
(***************************************************************************)
EXTENDS Integers, Sequences, FiniteSets, TLC

\* ---------------------------------------------------------------- bounds
MaxScore == 1
MaxTasks == 1
MaxRetries == 3

\* ------------------------------------------------------------- constants
\* GatewayScorer.GATEWAY_MIN_SCORE, read by get_best_gateway
GATEWAY_MIN_SCORE == 0

Urls == {"a", "b"}
Scores == GATEWAY_MIN_SCORE..MaxScore
\* the manager looks at no field of a task
TaskIds == {"t"}
Callers == {1, 2}

\* no call in flight / no url argument
NoUrl == ""
\* Python's None as an optional value; a present value g is <<g>>
None == <<>>
Some(g) == <<g>>

NoException == "none"
\* the exception get_tasks catches
Http3Exception == "Http3Exception"
\* any exception that is not an Http3Exception
OtherException == "OtherException"
ErrorKinds == {Http3Exception, OtherException}

\* Gateway: url, score and the disabled flag are the fields the manager uses
Gateway == [url : Urls, score : Scores, disabled : BOOLEAN]

SeqsUpTo(S, n) == UNION {[1..k -> S] : k \in 0..n}

UrlUnique(gs) == \A i, j \in DOMAIN gs : gs[i].url = gs[j].url => i = j

\* the gateway lists the collaborators hand over: url identifies a gateway
GatewayLists == {gs \in SeqsUpTo(Gateway, Cardinality(Urls)) : UrlUnique(gs)}

TaskLists == SeqsUpTo(TaskIds, MaxTasks)

UrlsOf(gs) == {gs[i].url : i \in DOMAIN gs}
DisabledUrls(gs) == {gs[i].url : i \in {j \in DOMAIN gs : gs[j].disabled}}

\* ------------------------------------------------------------- the state
VARIABLES
    gateways,     \* self._gateways
    pending,      \* per caller: the url of its get_tasks call awaiting the api
    prevDisabled, \* urls disabled when the latest get_tasks call started
    op,           \* the step that produced this state
    url,          \* url argument of the get_tasks call of that step
    transport,    \* outcome of the api call of that step
    tasks,        \* task list returned by get_tasks
    raised,       \* exception that escaped to the caller
    scorerCalls,  \* GatewayScorer.score invocations made by that step
    scorerIn,     \* argument of the GatewayScorer.score invocation
    scorerOut,    \* its return value
    best,         \* return value of get_best_gateway
    response,     \* what the api call of get_tasks ended with in that step
    apiCalls,     \* api calls made by the manager call that step belongs to
    responded,    \* an api call of get_tasks has returned a result
    spent,        \* the uncoordinated callers that have made their call
    overlapped,   \* a get_tasks call has started while another awaited the api
    \* post_with_retries of resources/test.py
    retries,      \* its argument
    attempt,      \* the loop variable
    posts,        \* what its post_prompt calls returned, in order
    sleeps,       \* its time.sleep calls, in order
    rpc,          \* idle (not called), loop or done
    result        \* the out it returned

\* the variables of the manager
mvars == <<gateways, pending, prevDisabled, op, url, transport, tasks, raised,
           scorerCalls, scorerIn, scorerOut, best, response, apiCalls,
           responded, spent, overlapped>>

\* the variables of post_with_retries
rvars == <<retries, attempt, posts, sleeps, rpc, result>>

vars == <<mvars, rvars>>

\* no api call of get_tasks ended in the step
NoResponse == [kind |-> "no call", tasks |-> <<>>, gateways |-> <<>>]

\* ------------------------------------------------------ get_best_gateway
\* a max() that takes the first element whatever its score
MaxIndex_first(gs) == CHOOSE i \in DOMAIN gs : \A j \in DOMAIN gs : i <= j

\* max(self._gateways, key=lambda x: x.score): the first element with the
\* greatest score
MaxIndex(gs) ==
    CHOOSE i \in DOMAIN gs :
        /\ \A j \in DOMAIN gs : gs[j].score <= gs[i].score
        /\ \A j \in DOMAIN gs : j < i => gs[j].score < gs[i].score

\* max() of an empty list
ValueError == "ValueError"

\* a get_best_gateway without the rd.choice branch
get_best_gateway_outcomes_nochoice(gs) ==
    IF gs = <<>>
    THEN {[raised |-> NoException, value |-> None]}
    ELSE {[raised |-> NoException, value |-> Some(gs[MaxIndex(gs)])]}

\* a get_best_gateway without the test for an empty list
get_best_gateway_outcomes_noguard(gs) ==
    IF gs = <<>>
    THEN {[raised |-> ValueError, value |-> None]}
    ELSE IF gs[MaxIndex(gs)].score = GATEWAY_MIN_SCORE
         THEN {[raised |-> NoException, value |-> Some(gs[i])] : i \in DOMAIN gs}
         ELSE {[raised |-> NoException, value |-> Some(gs[MaxIndex(gs)])]}

\* the outcomes of get_best_gateway: None for an empty list, else the
\* max() element, or any element (rd.choice) when that one has the minimum
\* score
get_best_gateway_outcomes(gs) ==
    IF gs = <<>>
    THEN {[raised |-> NoException, value |-> None]}
    ELSE IF gs[MaxIndex(gs)].score = GATEWAY_MIN_SCORE
         THEN {[raised |-> NoException, value |-> Some(gs[i])] : i \in DOMAIN gs}
         ELSE {[raised |-> NoException, value |-> Some(gs[MaxIndex(gs)])]}

\* a get_best_gateway that moves the gateway it returns to the front of
\* self._gateways
get_best_gateway_reordering ==
    \E r \in get_best_gateway_outcomes(gateways) :
        /\ op' = "get_best_gateway"
        /\ best' = r.value
        /\ raised' = r.raised
        /\ url' = NoUrl
        /\ transport' = NoException
        /\ tasks' = <<>>
        /\ scorerCalls' = 0
        /\ scorerIn' = <<>>
        /\ scorerOut' = <<>>
        /\ response' = NoResponse
        /\ apiCalls' = 0
        /\ gateways' = r.value \o SelectSeq(gateways, LAMBDA g : <<g>> /= r.value)
        /\ UNCHANGED <<pending, prevDisabled, responded, spent, overlapped>>

get_best_gateway ==
    \E r \in get_best_gateway_outcomes(gateways) :
        /\ op' = "get_best_gateway"
        /\ best' = r.value
        /\ raised' = r.raised
        /\ url' = NoUrl
        /\ transport' = NoException
        /\ tasks' = <<>>
        /\ scorerCalls' = 0
        /\ scorerIn' = <<>>
        /\ scorerOut' = <<>>
        /\ response' = NoResponse
        /\ apiCalls' = 0
        /\ UNCHANGED <<gateways, pending, prevDisabled, responded, spent,
                       overlapped>>

\* ------------------------------------------------------------- get_tasks
\* a get_tasks that leaves the flags as they are
ResetDisabled_kept(gs) == gs

\* for gateway in self._gateways: gateway.disabled = False
ResetDisabled(gs) == [i \in DOMAIN gs |-> [gs[i] EXCEPT !.disabled = FALSE]]

\* a loop without the test of the url: the first gateway gets disabled
DisableFirst_any(gs, u) ==
    IF gs /= <<>> THEN [gs EXCEPT ![1].disabled = TRUE] ELSE gs

\* a lookup that creates the gateway it does not find
DisableFirst_creates(gs, u) ==
    IF u \in UrlsOf(gs)
    THEN LET k == CHOOSE i \in DOMAIN gs :
                      /\ gs[i].url = u
                      /\ \A j \in DOMAIN gs : j < i => gs[j].url /= u
         IN [gs EXCEPT ![k].disabled = TRUE]
    ELSE Append(gs, [url |-> u, score |-> GATEWAY_MIN_SCORE, disabled |-> TRUE])

\* the first gateway whose url is u gets disabled = True, then break
DisableFirst(gs, u) ==
    IF u \in UrlsOf(gs)
    THEN LET k == CHOOSE i \in DOMAIN gs :
                      /\ gs[i].url = u
                      /\ \A j \in DOMAIN gs : j < i => gs[j].url /= u
         IN [gs EXCEPT ![k].disabled = TRUE]
    ELSE gs

\* a get_tasks that disables nothing
DisableIfNoTasks_never(gs, u, ts) == gs

\* a test of the task list the wrong way round
DisableIfNoTasks_inverted(gs, u, ts) ==
    IF ts /= <<>> THEN DisableFirst(gs, u) ELSE gs

\* if not tasks: disable the gateway of the call
DisableIfNoTasks(gs, u, ts) == IF ts = <<>> THEN DisableFirst(gs, u) ELSE gs

\* GatewayScorer.score: a total function that re-orders and re-rates the
\* gateways it is given and may drop some; a gateway it keeps carries the
\* disabled flag it came with
ScorerOutputs(gs) ==
    {out \in GatewayLists :
        \A i \in DOMAIN out : \E j \in DOMAIN gs :
            /\ out[i].url = gs[j].url
            /\ out[i].disabled = gs[j].disabled}

\* the gateway lists of a response: disabled is derived by the manager from
\* the outcome of a fetch, a gateway arrives without it
ResponseGatewayLists == {gs \in GatewayLists : DisabledUrls(gs) = {}}

\* GatewayApi.get_tasks: a result with tasks and gateways, or an exception
ApiGetTasksOutcomes ==
    {[kind |-> NoException, tasks |-> ts, gateways |-> gs] :
        ts \in TaskLists, gs \in ResponseGatewayLists}
    \cup {[kind |-> k, tasks |-> <<>>, gateways |-> <<>>] : k \in ErrorKinds}

\* a get_tasks without the except clause
Caught_nothing(kind) == FALSE

\* except Http3Exception
Caught(kind) == kind = Http3Exception

\* a try block that loses the list when the api call fails
TryResult_lost(r, gs) ==
    IF r.kind = NoException
    THEN [tasks |-> r.tasks, gateways |-> r.gateways]
    ELSE [tasks |-> <<>>, gateways |-> <<>>]

\* a try block whose except clause clears the flags again
TryResult_reset(r, gs) ==
    IF r.kind = NoException
    THEN [tasks |-> r.tasks, gateways |-> r.gateways]
    ELSE [tasks |-> <<>>, gateways |-> ResetDisabled(gs)]

\* a try block that appends the response to the list
TryResult_appended(r, gs) ==
    IF r.kind = NoException
    THEN [tasks |-> r.tasks, gateways |-> gs \o r.gateways]
    ELSE [tasks |-> <<>>, gateways |-> gs]

\* a try block that merges by url: the gateways the response does not name
\* stay in the list
TryResult_merged(r, gs) ==
    IF r.kind = NoException
    THEN [tasks |-> r.tasks,
          gateways |-> r.gateways \o
              SelectSeq(gs, LAMBDA g : g.url \notin UrlsOf(r.gateways))]
    ELSE [tasks |-> <<>>, gateways |-> gs]

\* the try block: tasks and self._gateways after the api call returned r or
\* raised a caught exception, gs being self._gateways before it
TryResult(r, gs) ==
    IF r.kind = NoException
    THEN [tasks |-> r.tasks, gateways |-> r.gateways]
    ELSE [tasks |-> <<>>, gateways |-> gs]

\* an _update_gateways that scores and drops the result
update_gateways_unassigned(gs) ==
    {[calls |-> 1, arg |-> gs, out |-> out, gateways |-> gs] :
        out \in ScorerOutputs(gs)}

\* _update_gateways: self._gateways = self._gateway_scorer.score(gateways)
update_gateways(gs) ==
    {[calls |-> 1, arg |-> gs, out |-> out, gateways |-> out] :
        out \in ScorerOutputs(gs)}

\* a get_tasks that calls the api again after an Http3Exception
get_tasks_api_calls_retry(kind) == IF kind = Http3Exception THEN 2 ELSE 1

\* the api calls of one get_tasks call whose api call ended with kind: the
\* await of lines 53-55 is in no loop
get_tasks_api_calls(kind) == 1

\* get_tasks up to the await: reset the flags, start the api call
get_tasks_begin(c, u) ==
    /\ pending[c] = NoUrl
    /\ pending' = [pending EXCEPT ![c] = u]
    /\ prevDisabled' = DisabledUrls(gateways)
    /\ gateways' = ResetDisabled(gateways)
    /\ op' = "get_tasks_begin"
    /\ url' = u
    /\ transport' = NoException
    /\ tasks' = <<>>
    /\ raised' = NoException
    /\ scorerCalls' = 0
    /\ scorerIn' = <<>>
    /\ scorerOut' = <<>>
    /\ best' = None
    /\ response' = NoResponse
    /\ apiCalls' = 1
    /\ overlapped' = (overlapped \/ \E d \in Callers : pending[d] /= NoUrl)
    /\ UNCHANGED responded

\* get_tasks from the resumption after the await to the return
get_tasks_end(c, r) ==
    /\ pending[c] /= NoUrl
    /\ pending' = [pending EXCEPT ![c] = NoUrl]
    /\ op' = "get_tasks_end"
    /\ url' = pending[c]
    /\ transport' = r.kind
    /\ best' = None
    /\ response' = r
    /\ apiCalls' = get_tasks_api_calls(r.kind)
    /\ responded' = (responded \/ r.kind = NoException)
    /\ UNCHANGED <<prevDisabled, spent, overlapped>>
    /\ IF r.kind /= NoException /\ ~Caught(r.kind)
       THEN \* the exception leaves get_tasks at the await
            /\ raised' = r.kind
            /\ tasks' = <<>>
            /\ scorerCalls' = 0
            /\ scorerIn' = <<>>
            /\ scorerOut' = <<>>
            /\ UNCHANGED gateways
       ELSE LET t == TryResult(r, gateways)
                arg == DisableIfNoTasks(t.gateways, pending[c], t.tasks)
            IN \E s \in update_gateways(arg) :
                /\ raised' = NoException
                /\ tasks' = t.tasks
                /\ scorerCalls' = s.calls
                /\ scorerIn' = s.arg
                /\ scorerOut' = s.out
                /\ gateways' = s.gateways

\* ------------------------------------------------------------ add_result
\* an add_result that swallows the failure
add_result_raises_swallowed(k) == NoException

\* what add_result lets out when the api call ends with k: there is no
\* try around the await
add_result_raises(k) == k

\* the api calls of one add_result call whose api call ended with k: one
\* await, no loop
add_result_api_calls(k) == 1

add_result ==
    \E k \in {NoException} \cup ErrorKinds :
        /\ op' = "add_result"
        /\ transport' = k
        /\ raised' = add_result_raises(k)
        /\ response' = NoResponse
        /\ apiCalls' = add_result_api_calls(k)
        /\ url' = NoUrl
        /\ tasks' = <<>>
        /\ scorerCalls' = 0
        /\ scorerIn' = <<>>
        /\ scorerOut' = <<>>
        /\ best' = None
        /\ UNCHANGED <<gateways, pending, prevDisabled, responded, spent,
                       overlapped>>

\* ----------------------------------------------------- post_with_retries
\* out.get("status") == 403
Forbidden == 403
\* a status that is not 403
ServerError == 500
\* no "status" key in out
NoStatus == 0

\* what post_prompt returns: the reduced response, or an entry with
\* error = True, with the status of an HTTPError
Outs ==
    {[error |-> FALSE, status |-> NoStatus]}
    \cup {[error |-> TRUE, status |-> st] : st \in {Forbidden, ServerError, NoStatus}}

\* 2 ** attempt
RECURSIVE Pow2(_)
Pow2(n) == IF n = 0 THEN 1 ELSE 2 * Pow2(n - 1)

\* a loop that sleeps after every failed attempt
SleepsAfter_always(a, n, out) ==
    (IF out.status = Forbidden
     THEN <<[kind |-> "jitter", after |-> a, factor |-> 1]>> ELSE <<>>)
    \o <<[kind |-> "backoff", after |-> a, factor |-> Pow2(a)]>>

\* the time.sleep calls after the failed attempt a of a call with n retries:
\* the jitter after a 403, then backoff_s * 2 ** attempt, both only when an
\* attempt follows
SleepsAfter(a, n, out) ==
    (IF out.status = Forbidden /\ a < n
     THEN <<[kind |-> "jitter", after |-> a, factor |-> 1]>> ELSE <<>>)
    \o (IF a < n
        THEN <<[kind |-> "backoff", after |-> a, factor |-> Pow2(a)]>> ELSE <<>>)

\* one iteration of the for loop: post_prompt, return its out if it is no
\* error, else sleep and go on
post_attempt ==
    /\ rpc = "loop"
    /\ attempt <= retries
    /\ \E out \in Outs :
        /\ posts' = Append(posts, out)
        /\ IF ~out.error
           THEN /\ result' = Some(out)
                /\ rpc' = "done"
                /\ UNCHANGED <<attempt, sleeps>>
           ELSE /\ sleeps' = sleeps \o SleepsAfter(attempt, retries, out)
                /\ attempt' = attempt + 1
                /\ UNCHANGED <<rpc, result>>
    /\ UNCHANGED <<retries, mvars>>

\* range(retries + 1) is exhausted: return pr, out
return_last ==
    /\ rpc = "loop"
    /\ attempt > retries
    /\ result' = Some(posts[Len(posts)])
    /\ rpc' = "done"
    /\ UNCHANGED <<retries, attempt, posts, sleeps, mvars>>

\* post_with_retries is not running
RetryIdle ==
    /\ retries = 0
    /\ attempt = 0
    /\ posts = <<>>
    /\ sleeps = <<>>
    /\ rpc = "idle"
    /\ result = None

\* ------------------------------------------------------ the specification
\* the manager after __init__
ManagerInit ==
    /\ gateways = <<>>
    /\ pending = [c \in Callers |-> NoUrl]
    /\ prevDisabled = {}
    /\ op = "init"
    /\ url = NoUrl
    /\ transport = NoException
    /\ tasks = <<>>
    /\ raised = NoException
    /\ scorerCalls = 0
    /\ scorerIn = <<>>
    /\ scorerOut = <<>>
    /\ best = None
    /\ response = NoResponse
    /\ apiCalls = 0
    /\ responded = FALSE
    /\ spent = {}
    /\ overlapped = FALSE

Init == ManagerInit /\ RetryIdle

\* one get_tasks call in flight at a time
NoneInFlight == \A c \in Callers : pending[c] = NoUrl

\* the scheduling loop that serializes its get_tasks calls
Loop == CHOOSE c \in Callers : \A d \in Callers : c <= d

Next ==
    \/ get_best_gateway /\ UNCHANGED rvars
    \/ \E u \in Urls :
          /\ NoneInFlight /\ get_tasks_begin(Loop, u)
          /\ UNCHANGED <<spent, rvars>>
    \/ \E c \in Callers, r \in ApiGetTasksOutcomes :
          get_tasks_end(c, r) /\ UNCHANGED rvars
    \/ add_result /\ UNCHANGED rvars

Spec == Init /\ [][Next]_vars

\* concurrent fetches against several gateways: a caller per gateway
GatewayOf == [c \in Callers |-> IF c = Loop THEN "a" ELSE "b"]

\* the get_tasks calls of callers that do not serialize, each making one
\* call to its gateway: a call may start while the other awaits the api
NextConc ==
    \/ \E c \in Callers :
          /\ c \notin spent
          /\ get_tasks_begin(c, GatewayOf[c])
          /\ spent' = spent \cup {c}
          /\ UNCHANGED rvars
    \/ \E c \in Callers, r \in ApiGetTasksOutcomes :
          get_tasks_end(c, r) /\ UNCHANGED rvars

SpecConc == Init /\ [][NextConc]_vars

\* a call of post_with_retries with retries >= 0; the manager is not part of
\* the script
InitRetry ==
    /\ ManagerInit
    /\ retries \in 0..MaxRetries
    /\ attempt = 0
    /\ posts = <<>>
    /\ sleeps = <<>>
    /\ rpc = "loop"
    /\ result = None

NextRetry == post_attempt \/ return_last

\* the loop runs on: post_prompt returns (urlopen has a timeout) and a sleep
\* ends
SpecRetry == InitRetry /\ [][NextRetry]_vars /\ WF_vars(NextRetry)

\* get_tasks returned (no exception left it)
Returned == op = "get_tasks_end" /\ raised = NoException

TypeOK ==
    /\ gateways \in GatewayLists
    /\ pending \in [Callers -> Urls \cup {NoUrl}]
    /\ prevDisabled \subseteq Urls
    /\ tasks \in TaskLists
    /\ scorerCalls \in 0..1

\* ---------------------------------------------------------------- claims

\* C1: after a get_tasks call that returns an empty task list, after a
\* response without tasks as after an Http3Exception, every gateway of the
\* resulting list whose url is the url of the call is disabled (the scorer
\* may have dropped it, then there is none).
C1_EmptyFetchDisablesTarget ==
    (Returned /\ tasks = <<>>) =>
        \A i \in DOMAIN gateways : gateways[i].url = url => gateways[i].disabled

\* a response without tasks, the target kept by the scorer and disabled
C1_Witness ==
    /\ Returned /\ transport = NoException /\ tasks = <<>>
    /\ \E i \in DOMAIN gateways : gateways[i].url = url /\ gateways[i].disabled

\* C2: when the api call of get_tasks raises Http3Exception, get_tasks
\* returns an empty task list, no exception reaches the caller, the scorer
\* runs, and the gateway of the call is disabled in the list handed to the
\* scorer and in the resulting list, where it is present.
C2_TransportErrorAbsorbed ==
    (op = "get_tasks_end" /\ transport = Http3Exception) =>
        /\ raised = NoException
        /\ tasks = <<>>
        /\ scorerCalls = 1
        /\ \A i \in DOMAIN scorerIn : scorerIn[i].url = url => scorerIn[i].disabled
        /\ \A i \in DOMAIN gateways : gateways[i].url = url => gateways[i].disabled

\* a failed call whose target is in the list and ends disabled
C2_Witness ==
    /\ op = "get_tasks_end" /\ transport = Http3Exception /\ tasks = <<>>
    /\ scorerCalls = 1
    /\ \E i \in DOMAIN gateways : gateways[i].url = url /\ gateways[i].disabled

\* C3: a get_tasks call invokes the scorer exactly once, none before the
\* await and one after it, whether the api returned tasks, returned none or
\* raised Http3Exception, and the list get_best_gateway reads afterwards is
\* the value that invocation returned.
C3_ScorerOncePerFetch ==
    /\ op = "get_tasks_begin" => scorerCalls = 0
    /\ (op = "get_tasks_end" /\ transport \in {NoException, Http3Exception}) =>
            /\ scorerCalls = 1
            /\ gateways = scorerOut

\* a call that returned tasks and whose scorer changed the list
C3_Witness ==
    /\ Returned /\ transport = NoException /\ tasks /= <<>>
    /\ scorerCalls = 1 /\ scorerOut /= scorerIn /\ gateways = scorerOut
    /\ gateways /= <<>>

\* C4: get_tasks clears every disabled flag before anything else: no gateway
\* is disabled while the api call is awaited, the list handed to the scorer
\* has no disabled gateway but the target of the call, and a gateway that was
\* disabled when the call started is not disabled when it ends, unless the
\* call returned an empty task list.
C4_FlagsResetEachCycle ==
    /\ op = "get_tasks_begin" => DisabledUrls(gateways) = {}
    /\ Returned => DisabledUrls(scorerIn) \subseteq {url}
    /\ (Returned /\ tasks /= <<>>) => DisabledUrls(scorerIn) = {}
    /\ (op = "get_tasks_end" /\ ~(Returned /\ tasks = <<>>)) =>
            prevDisabled \cap DisabledUrls(gateways) = {}

\* a gateway disabled by one cycle is in the list, enabled, after the next
\* cycle returned tasks
C4_Witness ==
    /\ Returned /\ tasks /= <<>>
    /\ prevDisabled /= {}
    /\ prevDisabled \subseteq UrlsOf(gateways)
    /\ DisabledUrls(gateways) = {}

\* C5: a disabled gateway is excluded from preference for the rest of its
\* fetch cycle: get_best_gateway does not return a disabled gateway while
\* the list holds a gateway that is not disabled.
C5_DisabledNotPreferred ==
    (op = "get_best_gateway" /\ best /= None) =>
        ~(/\ best[1].disabled
          /\ \E i \in DOMAIN gateways : ~gateways[i].disabled)

\* urls and scores in order, the disabled flags left out
UrlScores(gs) == [i \in DOMAIN gs |-> <<gs[i].url, gs[i].score>>]

\* C6: when the api call of get_tasks raises Http3Exception the list is not
\* updated from the call: from the start of the call to the scorer the urls,
\* the scores and the order stay those the manager held (the start of the
\* call changes flags only, get_best_gateway and add_result change nothing
\* while the call is awaited), and the list handed to the scorer has
\* exactly the target of the call disabled, if the list holds it.
C6_FailedFetchKeepsSet ==
    [][/\ op' = "get_tasks_begin" =>
            /\ UrlScores(gateways') = UrlScores(gateways)
            /\ DisabledUrls(gateways') = {}
       /\ (~NoneInFlight /\ op' \in {"get_best_gateway", "add_result"}) =>
            gateways' = gateways
       /\ (op' = "get_tasks_end" /\ transport' = Http3Exception) =>
            /\ UrlScores(scorerIn') = UrlScores(gateways)
            /\ DisabledUrls(scorerIn') = {url'} \cap UrlsOf(gateways)]_vars

\* a failed call on a list of two gateways, the target disabled for the
\* scorer and the other not
C6_Witness ==
    /\ op = "get_tasks_end" /\ transport = Http3Exception
    /\ Len(scorerIn) = 2
    /\ DisabledUrls(scorerIn) = {url}

\* C7: an exception of the api call of add_result reaches the caller of
\* add_result as the same kind of exception, whereas an Http3Exception of
\* the api call of get_tasks does not reach the caller of get_tasks.
C7_SubmitFailurePropagates ==
    /\ op = "add_result" => raised = transport
    /\ (op = "get_tasks_end" /\ transport = Http3Exception) => raised = NoException

\* an add_result whose api call raised Http3Exception
C7_Witness == op = "add_result" /\ transport = Http3Exception /\ raised = Http3Exception

\* the gateways of gs no other gateway of gs reaches in score
StrictlyBest(gs) ==
    {i \in DOMAIN gs : \A j \in DOMAIN gs : j /= i => gs[j].score < gs[i].score}

\* C8: on a list whose greatest score is above GATEWAY_MIN_SCORE
\* get_best_gateway returns a gateway of the list no gateway of the list
\* exceeds in score; if one gateway has a score above all others, it returns
\* that one.
C8_BestHasMaxScore ==
    (/\ op = "get_best_gateway"
     /\ \E i \in DOMAIN gateways : gateways[i].score > GATEWAY_MIN_SCORE) =>
        /\ raised = NoException
        /\ best /= None
        /\ \E i \in DOMAIN gateways : best[1] = gateways[i]
        /\ \A i \in DOMAIN gateways : gateways[i].score <= best[1].score
        /\ \A i \in StrictlyBest(gateways) : best[1] = gateways[i]

\* the best gateway is the second of two
C8_Witness ==
    /\ op = "get_best_gateway" /\ Len(gateways) = 2
    /\ gateways[2].score > GATEWAY_MIN_SCORE
    /\ gateways[2].score > gateways[1].score
    /\ best = Some(gateways[2])

AllMinScore(gs) == \A i \in DOMAIN gs : gs[i].score = GATEWAY_MIN_SCORE

\* C9: on a non-empty list whose greatest score is GATEWAY_MIN_SCORE
\* get_best_gateway returns a gateway of the list, and every gateway of the
\* list is a possible return value.
C9_RandomAmongMinScore ==
    /\ (op = "get_best_gateway" /\ gateways /= <<>> /\ AllMinScore(gateways)) =>
            /\ raised = NoException
            /\ best /= None
            /\ \E i \in DOMAIN gateways : best[1] = gateways[i]
    /\ (gateways /= <<>> /\ AllMinScore(gateways)) =>
            \A i \in DOMAIN gateways :
                ENABLED (get_best_gateway /\ best' = Some(gateways[i]))

\* two gateways of minimum score, the second returned
C9_Witness ==
    /\ op = "get_best_gateway" /\ Len(gateways) = 2 /\ AllMinScore(gateways)
    /\ best = Some(gateways[2])

\* C10: get_best_gateway on an empty list, that of a new manager included,
\* returns None and raises nothing.
C10_EmptySetGivesNone ==
    /\ (op = "get_best_gateway" /\ gateways = <<>>) =>
            best = None /\ raised = NoException
    /\ gateways = <<>> =>
            ~ENABLED (get_best_gateway /\ (best' /= None \/ raised' /= NoException))

\* get_best_gateway has returned None on a manager that has never received
\* a gateway
C10_Witness ==
    /\ op = "get_best_gateway" /\ gateways = <<>> /\ best = None
    /\ raised = NoException /\ prevDisabled = {} /\ NoneInFlight

\* a call has just returned an empty task list with its gateway disabled
\* while the call of caller d, to another gateway of the list, awaits the api
DisabledWhileAwaited(d) ==
    /\ Returned /\ tasks = <<>>
    /\ url \in DisabledUrls(gateways)
    /\ pending[d] \in UrlsOf(gateways) \ {url}

\* C11: overlapping get_tasks calls corrupt the disable and replace
\* sequence. When the two calls do not overlap, in either order, a call
\* leaves no gateway disabled but its own; when they overlap, the call that
\* resumes second can end with both gateways disabled (the flag of the first
\* call survives its own reset, made before the await), and it can end with
\* the flag of the first call erased by its replacement of the list.
C11_OverlapCorruptsDisable ==
    /\ (Returned /\ ~overlapped) => DisabledUrls(gateways) \subseteq {url}
    /\ \A d \in Callers : DisabledWhileAwaited(d) =>
          /\ ENABLED (\E r \in ApiGetTasksOutcomes :
                        /\ r.kind = Http3Exception
                        /\ get_tasks_end(d, r)
                        /\ DisabledUrls(gateways') = {url, pending[d]})
          /\ ENABLED (\E r \in ApiGetTasksOutcomes :
                        /\ r.kind = NoException /\ r.tasks /= <<>>
                        /\ get_tasks_end(d, r)
                        /\ url \in UrlsOf(gateways') \ DisabledUrls(gateways'))

\* both overlapping calls have returned and both gateways are disabled
C11_Witness ==
    /\ Returned /\ overlapped /\ spent = Callers /\ NoneInFlight
    /\ Cardinality(DisabledUrls(gateways)) = 2

\* C12: url identifies a gateway in the list of the manager: in every state,
\* and in every list handed to the scorer, no two gateways have the same url.
C12_UrlUnique == UrlUnique(gateways) /\ UrlUnique(scorerIn)

\* two gateways in the list after calls of the three operations
C12_Witness ==
    /\ op = "add_result" /\ responded
    /\ Len(gateways) = 2 /\ gateways[1].url /= gateways[2].url

\* C13: get_best_gateway and add_result leave self._gateways as it is,
\* whether they return or raise: a step that changes the list is a step of
\* get_tasks.
C13_OnlyFetchChangesSet ==
    [][/\ op' \in {"get_best_gateway", "add_result"} => gateways' = gateways
       /\ gateways' /= gateways => op' \in {"get_tasks_begin", "get_tasks_end"}]_vars

\* an add_result that raised, on a list of two gateways, one disabled and
\* not the first
C13_Witness ==
    /\ op = "add_result" /\ raised = Http3Exception
    /\ Len(gateways) = 2 /\ gateways[2].disabled

\* C14: when the api call returns a result, get_tasks returns the task list
\* of the result and the list handed to the scorer is the gateway list of
\* the result, gateway for gateway: no gateway of the old list that the
\* result does not name is in it.
C14_ResponseReplacesSet ==
    (op = "get_tasks_end" /\ transport = NoException) =>
        /\ raised = NoException
        /\ tasks = response.tasks
        /\ UrlScores(scorerIn) = UrlScores(response.gateways)

\* the gateway disabled before the call is not named by the result and is
\* not handed to the scorer
C14_Witness ==
    /\ Returned /\ transport = NoException /\ tasks /= <<>>
    /\ response.gateways /= <<>>
    /\ prevDisabled /= {}
    /\ prevDisabled \cap UrlsOf(response.gateways) = {}
    /\ prevDisabled \cap UrlsOf(scorerIn) = {}

\* C15: with serialized calls, after every get_tasks call that returned, no
\* gateway is disabled but the one with the url of the call, in the list
\* handed to the scorer and in the resulting list; none is disabled when the
\* call returned tasks or the list held no gateway with that url.
C15_AtMostTargetDisabled ==
    Returned =>
        /\ DisabledUrls(scorerIn) \subseteq {url}
        /\ DisabledUrls(gateways) \subseteq {url}
        /\ Cardinality({i \in DOMAIN gateways : gateways[i].disabled}) <= 1
        /\ (tasks /= <<>> \/ url \notin UrlsOf(scorerIn)) =>
                DisabledUrls(scorerIn) = {} /\ DisabledUrls(gateways) = {}

\* scenario P8: two gateways, the call to the first returned no tasks, the
\* first is disabled and the second is not
C15_Witness ==
    /\ Returned /\ transport = NoException /\ tasks = <<>>
    /\ Len(gateways) = 2
    /\ gateways[1].url = url /\ gateways[1].disabled /\ ~gateways[2].disabled

\* C16: get_tasks has no await after the api call: the step that resumes a
\* call works on the list as it finds it (after an Http3Exception) or on the
\* list of the result, whatever the other calls have done before, so that
\* the scorer of a call without tasks gets the gateway of the call disabled.
C16_ResumptionAtomic ==
    [][(op' = "get_tasks_end" /\ raised' = NoException) =>
          /\ gateways' = scorerOut'
          /\ tasks' = <<>> =>
                \A i \in DOMAIN scorerIn' :
                    scorerIn'[i].url = url' => scorerIn'[i].disabled
          /\ transport' = Http3Exception =>
                /\ tasks' = <<>>
                /\ UrlScores(scorerIn') = UrlScores(gateways)
                /\ DisabledUrls(scorerIn') =
                      DisabledUrls(gateways) \cup ({url'} \cap UrlsOf(gateways))
          /\ transport' = NoException =>
                UrlScores(scorerIn') = UrlScores(response'.gateways)]_vars

\* a call returned no tasks while the other call awaited the api, and the
\* scorer got its gateway disabled
C16_Witness ==
    /\ Returned /\ tasks = <<>> /\ overlapped /\ ~NoneInFlight
    /\ url \in DisabledUrls(scorerIn)

\* C17: the manager does not retry: a get_tasks call has made one api call
\* when it awaits and one when it is over, whatever the api call ended with,
\* and is then not awaiting again; an add_result call has made one api call;
\* get_best_gateway makes none.
C17_OneAttemptPerCall ==
    /\ op = "get_tasks_begin" => apiCalls = 1
    /\ op = "get_tasks_end" => apiCalls = 1 /\ NoneInFlight
    /\ op = "add_result" => apiCalls = 1
    /\ op = "get_best_gateway" => apiCalls = 0

\* a get_tasks call whose only api call raised Http3Exception is over
C17_Witness ==
    /\ op = "get_tasks_end" /\ transport = Http3Exception
    /\ apiCalls = 1 /\ NoneInFlight

\* C18: until an api call of get_tasks returns a result the list is empty
\* and get_best_gateway returns None: a failed get_tasks, get_best_gateway
\* and add_result add no gateway (the scorer returns none it was not given).
C18_EmptyUntilFirstResponse ==
    ~responded =>
        /\ gateways = <<>>
        /\ scorerIn = <<>> /\ scorerOut = <<>>
        /\ op = "get_best_gateway" => best = None

\* a get_tasks call failed before any result arrived and the list is empty
C18_Witness ==
    /\ ~responded /\ op = "get_tasks_end" /\ transport = Http3Exception
    /\ scorerCalls = 1 /\ gateways = <<>>

\* ---------------------------------------------------------------- C19
\* every attempt before the last one made was an error
EarlierAttemptsFailed == \A i \in 1..(Len(posts) - 1) : posts[i].error

\* what holds at every point of a post_with_retries call
RetryBounded ==
    rpc /= "idle" =>
        /\ Len(posts) <= retries + 1
        /\ EarlierAttemptsFailed
        /\ \A i \in 1..Len(sleeps) : sleeps[i].after < retries
        /\ rpc = "done" =>
              /\ Len(posts) >= 1
              /\ result = Some(posts[Len(posts)])
              /\ posts[Len(posts)].error => Len(posts) = retries + 1
              /\ \A i \in 1..Len(sleeps) : sleeps[i].after < Len(posts) - 1

\* C19: post_with_retries with retries >= 0 terminates after at most
\* retries + 1 calls of post_prompt; it returns the first result that is no
\* error without a further attempt, else the result of the last attempt, and
\* it never sleeps after the final attempt.
C19_RetriesBoundedAndTerminate == [] RetryBounded /\ <>(rpc = "done")

\* all retries + 1 attempts failed, the first with a 403: the last error is
\* returned after a jitter and a backoff sleep following attempt 0
C19_Witness ==
    /\ rpc = "done"
    /\ retries >= 2
    /\ Len(posts) = retries + 1
    /\ posts[1].status = Forbidden
    /\ result = Some(posts[Len(posts)])
    /\ result[1].error
    /\ Len(sleeps) = retries + 1

====
